---- MODULE Spec2Model ----
(***************************************************************************)
(* Content normalization pipeline of the Carrabis blog archive browser     *)
(* (src/app.py): sanitize_html, clean_body_text and get_display_html.      *)
(*                                                                         *)
(* Strings are modelled as sequences of tokens.  A plain-text body is a    *)
(* sequence of word / whitespace tokens (each token a string); a markup    *)
(* string is a sequence of markup tokens (start tag, end tag, text,        *)
(* comment, malformed declaration).  Regular expressions are translated    *)
(* item by item to matchers over token sequences; a parsed tree is the     *)
(* balanced token sequence of its serialization.                           *)
(***************************************************************************)
EXTENDS Integers, Sequences, FiniteSets, TLC

(***************************************************************************)
(* Bounds of the model.                                                    *)
(***************************************************************************)
MaxChunks == 3        \* phrases per body_text given to clean_body_text
MaxMarkup == 4        \* markup tokens per input given to sanitize_html
MaxPostChunks == 2    \* phrases per body_text of a post record
MaxPostMarkup == 2    \* markup pieces per body_html of a post record
MaxCalls == 2         \* successive applications of a pure function
MaxParaChunks == 5    \* words and newlines per body_text of the text tier

(***************************************************************************)
(* Generic helpers on sequences.                                           *)
(***************************************************************************)
SeqsUpTo(S, n) == UNION {[1..k -> S] : k \in 0..n}

RECURSIVE Flatten(_)
Flatten(ss) == IF ss = <<>> THEN <<>> ELSE Head(ss) \o Flatten(Tail(ss))

SetMin(S) == CHOOSE x \in S : \A y \in S : x <= y
SetMax(S) == CHOOSE x \in S : \A y \in S : x >= y

(***************************************************************************)
(* Plain text: whitespace and str.strip / rstrip / lstrip.                 *)
(***************************************************************************)
WS == {" ", "\n"}

RECURSIVE RStrip(_)
RStrip(t) ==
    IF t # <<>> /\ t[Len(t)] \in WS THEN RStrip(SubSeq(t, 1, Len(t) - 1)) ELSE t

RECURSIVE LStrip(_)
LStrip(t) == IF t # <<>> /\ Head(t) \in WS THEN LStrip(Tail(t)) ELSE t

Strip(t) == LStrip(RStrip(t))

(***************************************************************************)
(* Regular expressions over token sequences.  An item is one of            *)
(*   tok  : one token of the given set (a literal, or a class such as \d+  *)
(*          restricted to the vocabulary)                                  *)
(*   ws1  : \s+      ws0 : \s*                                             *)
(*   any  : .* or .*? without DOTALL (no newline); lazy tells the order    *)
(*   all  : .*? with DOTALL                                                *)
(*   end  : $ (end of text, or just before a final newline)                *)
(***************************************************************************)
Tok(S)  == [k |-> "tok", set |-> S, lazy |-> FALSE]
Lit(s)  == Tok({s})
Sp      == Tok({" "})
Ws1     == [k |-> "ws1", set |-> {}, lazy |-> FALSE]
Ws0     == [k |-> "ws0", set |-> {}, lazy |-> FALSE]
AnyLazy == [k |-> "any", set |-> {}, lazy |-> TRUE]
AnyGreedy == [k |-> "any", set |-> {}, lazy |-> FALSE]
AllLazy == [k |-> "all", set |-> {}, lazy |-> TRUE]
End     == [k |-> "end", set |-> {}, lazy |-> FALSE]

\* Token classes of the vocabulary.
DIGITS     == {"5", "12", "2014"}                      \* \d+
DIGITSTART == DIGITS \cup {"24th,"}                    \* a token \d+.* begins
YEAR4      == {"2014"}                                 \* \d{4}
ATWORD     == {"@user"}                                \* @\w+
PARENNUM   == {"(12)"}                                 \* \(\d+\)
WORDS      == DIGITS \cup {"carrabis", "November", "posted", "By", "by",
                           "Great", "game", "Share", "Tweet", "Tweets",
                           "React", "Home", "The", "Store", "BarstoolTV",
                           "Cities", "Barstool", "Sports", "All",
                           "Categories", "Leave", "a", "Comment", "Comments",
                           "Top", "Media", "Kit", "Real", "article",
                           "content", "No", "user1", "nice", "post"}  \* \w+

\* Positions q >= from such that t[p..q-1] consists of tokens allowed by the
\* item (q is the position after the run).
RunEnds(item, t, p) ==
    LET ok(x) == CASE item.k \in {"ws1", "ws0"} -> x \in WS
                   [] item.k = "any" -> x # "\n"
                   [] OTHER -> TRUE
        lo == IF item.k = "ws1" THEN p + 1 ELSE p
    IN {q \in lo..(Len(t) + 1) : \A j \in p..(q - 1) : ok(t[j])}

\* End position (exclusive) of the match of items k.. of pat at position p
\* of t that a backtracking matcher finds first; 0 when there is none.
RECURSIVE MatchEnd(_, _, _, _)
MatchEnd(pat, k, t, p) ==
    IF k > Len(pat) THEN p
    ELSE LET item == pat[k] IN
      CASE item.k = "tok" ->
             IF p <= Len(t) /\ t[p] \in item.set
               THEN MatchEnd(pat, k + 1, t, p + 1) ELSE 0
        [] item.k = "end" ->
             IF p = Len(t) + 1 \/ (p = Len(t) /\ t[p] = "\n")
               THEN MatchEnd(pat, k + 1, t, p) ELSE 0
        [] OTHER ->
             LET good == {q \in RunEnds(item, t, p) :
                            MatchEnd(pat, k + 1, t, q) # 0}
             IN IF good = {} THEN 0
                ELSE MatchEnd(pat, k + 1, t,
                              IF item.lazy THEN SetMin(good) ELSE SetMax(good))

\* re.search: start of the leftmost match, 0 when the pattern does not match.
Search(pat, t) ==
    LET starts == {s \in 1..(Len(t) + 1) : MatchEnd(pat, 1, t, s) # 0}
    IN IF starts = {} THEN 0 ELSE SetMin(starts)

(***************************************************************************)
(* clean_body_text                                                         *)
(***************************************************************************)
cut_patterns == <<
    << Lit("Follow"), Ws1, Tok(ATWORD), Ws1, Lit("Share"), Ws1,
       Tok({"Tweet", "Tweets"}) >>,
    << Lit("Share"), Ws1, Lit("Tweet"), Ws1, Lit("React"), Ws0, Tok(PARENNUM) >>,
    << Lit("Top"), Sp, Tok(DIGITS), Sp, Lit("Comments") >>,
    << Tok(DIGITS), Sp, Tok({"comment", "comments"}), Ws1, Lit("Sort"), Sp,
       Lit("by") >>,
    << Lit("Comments"), Sp, Lit("will"), Sp, Lit("close"), Sp, Lit("out") >>,
    << Lit("Thumbs"), Sp, Lit("Up"), Ws1, Lit("Thumbs"), Sp, Lit("Down"), Ws1,
       Lit("by"), Ws1 >>,
    << Lit("Up:"), Ws0, Tok(DIGITS), Ws0, Lit("Down:"), Ws0, Tok(DIGITSTART) >>,
    << Lit("Leave"), Sp, Lit("a"), Sp, Tok({"Comment", "Comments"}) >>,
    << Lit("Tweets"), Ws1, AnyLazy, Lit("http://t.co/abc") >>,
    << Lit("Tour"), Sp, Lit("Dates"), Ws1 >>,
    << Lit("Featured"), Sp, Lit("Video"), Ws1 >>,
    << Lit("View"), Sp, Lit("more"), Sp, Lit("Videos") >>,
    << Lit("Â©"), Ws0, Tok(YEAR4), Ws0, Lit("Barstool") >>,
    << Lit("Disclaimer"), Ws0, Lit("|"), Ws0, Lit("Copyright") >>,
    << Lit("Media"), Sp, Lit("Kit"), Ws0, End >>,
    << Lit("Barstool"), Sp, Lit("Sports"), Ws0, Lit("|"), Ws0,
       Lit("Disclaimer") >> >>

\* re.IGNORECASE: the case variants of a word in the vocabulary.
AnyCase(s) ==
    CASE s = "By" -> {"By", "by"}
      [] s = "Home" -> {"Home", "home"}
      [] OTHER -> {s}

byline_pattern ==
    << Ws0, Tok(AnyCase("By")), Ws1, Tok(WORDS), Ws1, Tok(AnyCase("posted")),
       Ws1, Tok(WORDS), Ws1, Tok(DIGITSTART), AnyGreedy, End >>

nav_pattern ==
    << Tok(AnyCase("Home")), Ws1, Tok(AnyCase("The")), Sp,
       Tok(AnyCase("Store")), Ws1, Tok(AnyCase("BarstoolTV")), Ws1, AllLazy,
       Tok(AnyCase("Barstool")), Sp, Tok(AnyCase("Sports")), Ws1,
       Tok(AnyCase("All")), Sp, Tok(AnyCase("Categories")), Ws1 >>

\* A loop that goes on to the later patterns after a cut (no break).
RECURSIVE CutLoopNoBreak(_, _)
CutLoopNoBreak(text, i) ==
    IF i > Len(cut_patterns) THEN text
    ELSE LET s == Search(cut_patterns[i], text)
         IN IF s # 0 THEN CutLoopNoBreak(RStrip(SubSeq(text, 1, s - 1)), i + 1)
            ELSE CutLoopNoBreak(text, i + 1)

\* for pattern in cut_patterns: ... text = text[:match.start()].rstrip(); break
RECURSIVE CutLoop(_, _)
CutLoop(text, i) ==
    IF i > Len(cut_patterns) THEN text
    ELSE LET s == Search(cut_patterns[i], text)
         IN IF s # 0 THEN RStrip(SubSeq(text, 1, s - 1))
            ELSE CutLoop(text, i + 1)

\* re.sub(byline, '', text).rstrip(): the pattern ends in .*$, so there is at
\* most one match, the leftmost.
StripByline(text) ==
    LET s == Search(byline_pattern, text)
    IN IF s = 0 THEN RStrip(text)
       ELSE LET e == MatchEnd(byline_pattern, 1, text, s)
            IN RStrip(SubSeq(text, 1, s - 1) \o SubSeq(text, e, Len(text)))

\* re.match(nav, text): text[nav_match.end():].lstrip()
StripNav(text) ==
    LET e == MatchEnd(nav_pattern, 1, text, 1)
    IN IF e = 0 THEN text ELSE LStrip(SubSeq(text, e, Len(text)))

clean_body_text(text) ==
    IF text = <<>> THEN text
    ELSE Strip(StripNav(StripByline(CutLoop(text, 1))))

(***************************************************************************)
(* Markup strings and the parser (BeautifulSoup(raw_html, "html.parser")). *)
(***************************************************************************)
StartTag(name, attrs) == [k |-> "start", name |-> name, attrs |-> attrs, s |-> ""]
EndTag(name)  == [k |-> "end", name |-> name, attrs |-> {}, s |-> ""]
Text(s)       == [k |-> "text", name |-> "", attrs |-> {}, s |-> s]
CommentTok(s) == [k |-> "comment", name |-> "", attrs |-> {}, s |-> s]
\* A marked section with an unknown keyword, "<![foo[": _markupbase rejects
\* it in some interpreter versions and reads it as a bogus comment in others.
BadDecl       == [k |-> "decl", name |-> "", attrs |-> {}, s |-> "foo"]
\* "<!DOCTYPE html>"
DoctypeTok(s) == [k |-> "doctype", name |-> "", attrs |-> {}, s |-> s]
Attr(n, v)    == [n |-> n, v |-> v]

\* Elements the tree builder closes as soon as they are opened.
VoidTags == {"br", "hr", "img", "input", "meta", "link", "source", "area",
             "base", "col", "embed", "param", "track", "wbr"}
\* html.parser reads the content of these as raw text up to the end tag.
CDataTags == {"script", "style"}

\* Character references: "&amp;" and "&lt;" / "&gt;" in the strings of the
\* vocabulary.
Unescape(s) ==
    CASE s = "AT&amp;T" -> "AT&T"
      [] s = "&lt;script&gt;" -> "<script>"
      [] OTHER -> s

\* A conversion that leaves the markup characters in place.
NoEscape(s) == s

\* html.escape and the serializer's entity substitution: & < > replaced.
EscapeAmpLtGt(s) ==
    CASE s = "AT&T" -> "AT&amp;T"
      [] s = "<script>" -> "&lt;script&gt;"
      [] OTHER -> s

\* The tokenizer: characters "<script>" in a markup string are a start tag,
\* wherever they came from.
Lex(tok) ==
    IF tok.k = "text" /\ tok.s = "<script>" THEN StartTag("script", {}) ELSE tok

\* The source text of a token, for the raw content of script and style.
Source(tok) ==
    CASE tok.k = "start" -> "<" \o tok.name \o ">"
      [] tok.k = "end" -> "</" \o tok.name \o ">"
      [] tok.k = "comment" -> "<!--" \o tok.s \o "-->"
      [] tok.k = "decl" -> "<![" \o tok.s \o "["
      [] tok.k = "doctype" -> "<!DOCTYPE " \o tok.s \o ">"
      [] OTHER -> tok.s

RECURSIVE CloseAll(_)
CloseAll(stack) ==
    IF stack = <<>> THEN <<>>
    ELSE <<EndTag(stack[Len(stack)])>> \o CloseAll(SubSeq(stack, 1, Len(stack) - 1))

\* _popToTag: the open elements from the most recent one named name upward.
TopDownTo(stack, name) ==
    LET j == SetMax({i \in 1..Len(stack) : stack[i] = name})
    IN [below |-> SubSeq(stack, 1, j - 1), popped |-> SubSeq(stack, j, Len(stack))]

\* The tree as the balanced token sequence of its serialization: stack holds
\* the names of the open elements, out the part of the tree built so far.
RECURSIVE ParseFrom(_, _, _, _)
ParseFrom(toks, i, stack, out) ==
    IF i > Len(toks) THEN out \o CloseAll(stack)
    ELSE
      LET tok == Lex(toks[i])
          top == IF stack = <<>> THEN "" ELSE stack[Len(stack)]
      IN
      IF top \in CDataTags
        THEN IF tok.k = "end" /\ tok.name = top
               THEN ParseFrom(toks, i + 1, SubSeq(stack, 1, Len(stack) - 1),
                              Append(out, tok))
               ELSE ParseFrom(toks, i + 1, stack, Append(out, Text(Source(tok))))
      ELSE
      CASE tok.k = "start" ->
             IF tok.name \in VoidTags
               THEN ParseFrom(toks, i + 1, stack, Append(out, tok))
               ELSE ParseFrom(toks, i + 1, Append(stack, tok.name), Append(out, tok))
        [] tok.k = "end" ->
             IF \E j \in 1..Len(stack) : stack[j] = tok.name
               THEN LET r == TopDownTo(stack, tok.name)
                    IN ParseFrom(toks, i + 1, r.below, out \o CloseAll(r.popped))
               ELSE ParseFrom(toks, i + 1, stack, out)
        [] tok.k = "text" ->
             ParseFrom(toks, i + 1, stack, Append(out, Text(Unescape(tok.s))))
        [] tok.k = "decl" ->
             ParseFrom(toks, i + 1, stack, Append(out, CommentTok(tok.s)))
        [] OTHER -> ParseFrom(toks, i + 1, stack, Append(out, tok))

Parse(raw) == ParseFrom(raw, 1, <<>>, <<>>)

\* Whether the markup holds a construct the parser can reject
\* (ParserRejectedMarkup), outside raw script / style content.
RECURSIVE RejectableFrom(_, _, _)
RejectableFrom(toks, i, cdata) ==
    IF i > Len(toks) THEN FALSE
    ELSE LET tok == Lex(toks[i]) IN
      IF cdata # ""
        THEN RejectableFrom(toks, i + 1,
                            IF tok.k = "end" /\ tok.name = cdata THEN "" ELSE cdata)
      ELSE IF tok.k = "decl" THEN TRUE
      ELSE RejectableFrom(toks, i + 1,
                          IF tok.k = "start" /\ tok.name \in CDataTags
                            THEN tok.name ELSE "")

Rejectable(raw) == RejectableFrom(raw, 1, "")

(***************************************************************************)
(* Operations on the tree.                                                 *)
(***************************************************************************)
\* The position of the end tag of the element that starts at i (i itself
\* for a void element).
RECURSIVE CloseFrom(_, _, _)
CloseFrom(tree, j, depth) ==
    IF j > Len(tree) THEN Len(tree)
    ELSE IF tree[j].k = "start" /\ tree[j].name \notin VoidTags
      THEN CloseFrom(tree, j + 1, depth + 1)
    ELSE IF tree[j].k = "end"
      THEN IF depth = 0 THEN j ELSE CloseFrom(tree, j + 1, depth - 1)
    ELSE CloseFrom(tree, j + 1, depth)

MatchClose(tree, i) ==
    IF tree[i].name \in VoidTags THEN i ELSE CloseFrom(tree, i + 1, 0)

\* tag.decompose(): the element and everything in it leaves the tree.
Decompose(tree, i) ==
    SubSeq(tree, 1, i - 1) \o SubSeq(tree, MatchClose(tree, i) + 1, Len(tree))

\* An unwrapping that takes the children away with the element.
UnwrapWithChildren(tree, i) == Decompose(tree, i)

\* tag.unwrap(): the element is replaced by its children.
Unwrap(tree, i) ==
    LET c == MatchClose(tree, i)
    IN IF c = i THEN SubSeq(tree, 1, i - 1) \o SubSeq(tree, i + 1, Len(tree))
       ELSE SubSeq(tree, 1, i - 1) \o SubSeq(tree, i + 1, c - 1)
            \o SubSeq(tree, c + 1, Len(tree))

(***************************************************************************)
(* sanitize_html                                                           *)
(***************************************************************************)
ALLOWED_TAGS == {"p", "br", "b", "i", "em", "strong", "a", "img", "h1", "h2",
                 "h3", "h4", "h5", "h6", "ul", "ol", "li", "blockquote",
                 "pre", "code", "table", "thead", "tbody", "tr", "td", "th",
                 "hr", "span", "div", "figure", "figcaption", "video",
                 "source", "iframe"}

\* ALLOWED_ATTRS.get(tag.name, set())
ALLOWED_ATTRS(name) ==
    CASE name = "a" -> {"href", "target", "rel"}
      [] name = "img" -> {"src", "alt", "width", "height"}
      [] name = "iframe" -> {"src", "width", "height", "frameborder",
                             "allowfullscreen"}
      [] name = "video" -> {"src", "controls", "width", "height"}
      [] name = "source" -> {"src", "type"}
      [] name \in {"td", "th"} -> {"colspan", "rowspan"}
      [] OTHER -> {}

REMOVED_TAGS == {"script", "style", "nav", "header", "footer", "noscript",
                 "link", "meta", "head"}

JUNK_WORDS == {"sidebar", "nav", "menu", "footer", "header", "comment",
               "social", "share", "related", "newsletter", "popup", "modal",
               "overlay", "ad-", "advertisement", "cookie", "wm-ipp",
               "wayback", "toolbar", "donate"}

\* re.IGNORECASE on the fragments of attribute values in the vocabulary.
Lower(s) == CASE s = "Sidebar" -> "sidebar" [] OTHER -> s

\* JUNK_PATTERN.search(value): an attribute value is a sequence of fragments,
\* and the pattern is found when a fragment is one of its alternatives.
JUNK_PATTERN(value) == \E i \in 1..Len(value) : Lower(value[i]) \in JUNK_WORDS

\* tag.get('class', []) joined, and tag.get('id', '') or ''.
AttrValue(tok, n) ==
    IF \E a \in tok.attrs : a.n = n
      THEN (CHOOSE a \in tok.attrs : a.n = n).v ELSE <<>>

IsJunk(tok) ==
    JUNK_PATTERN(AttrValue(tok, "class")) \/ JUNK_PATTERN(AttrValue(tok, "id"))

\* for tag in soup.find_all([...]): tag.decompose()
RECURSIVE RemoveTags(_, _)
RemoveTags(tree, i) ==
    IF i > Len(tree) THEN tree
    ELSE IF tree[i].k = "start" /\ tree[i].name \in REMOVED_TAGS
      THEN RemoveTags(Decompose(tree, i), i)
    ELSE RemoveTags(tree, i + 1)

\* for tag in soup.find_all(True): ... if JUNK_PATTERN.search(...): decompose
\* (the elements inside a decomposed one have attrs None and are skipped).
RECURSIVE RemoveJunk(_, _)
RemoveJunk(tree, i) ==
    IF i > Len(tree) THEN tree
    ELSE IF tree[i].k = "start" /\ IsJunk(tree[i])
      THEN RemoveJunk(Decompose(tree, i), i)
    ELSE RemoveJunk(tree, i + 1)

\* for comment in soup.find_all(string=...Comment): comment.extract()
RemoveComments(tree) == SelectSeq(tree, LAMBDA tok : tok.k # "comment")

\* An unwrapping that reaches only the elements whose parent is kept: what
\* is inside an unwrapped element is passed over.
RECURSIVE UnwrapOuterOnly(_, _)
UnwrapOuterOnly(tree, i) ==
    IF i > Len(tree) THEN tree
    ELSE IF tree[i].k = "start" /\ tree[i].name \notin ALLOWED_TAGS
      THEN LET c == MatchClose(tree, i)
           IN UnwrapOuterOnly(Unwrap(tree, i), IF c = i THEN i ELSE c - 1)
    ELSE UnwrapOuterOnly(tree, i + 1)

\* for tag in soup.find_all(True): if tag.name not in ALLOWED_TAGS: unwrap()
RECURSIVE UnwrapDisallowed(_, _)
UnwrapDisallowed(tree, i) ==
    IF i > Len(tree) THEN tree
    ELSE IF tree[i].k = "start" /\ tree[i].name \notin ALLOWED_TAGS
      THEN UnwrapDisallowed(Unwrap(tree, i), i)
    ELSE UnwrapDisallowed(tree, i + 1)

\* for attr in list(tag.attrs): if attr not in allowed: del tag[attr]
StripAttrs(tree) ==
    [i \in 1..Len(tree) |->
       IF tree[i].k = "start"
         THEN [tree[i] EXCEPT !.attrs =
                 {a \in @ : a.n \in ALLOWED_ATTRS(tree[i].name)}]
         ELSE tree[i]]

\* str(soup): text is written with & < > substituted, and a doctype with a
\* newline after it (Doctype.SUFFIX is ">\n").
RECURSIVE Serialize(_)
Serialize(tree) ==
    IF tree = <<>> THEN <<>>
    ELSE (CASE Head(tree).k = "text" -> <<Text(EscapeAmpLtGt(Head(tree).s))>>
            [] Head(tree).k = "doctype" -> <<Head(tree), Text("\n")>>
            [] OTHER -> <<Head(tree)>>) \o Serialize(Tail(tree))

\* str.strip() on a markup string: whitespace text at either end.
IsSpace(tok) == tok.k = "text" /\ tok.s \in WS

RECURSIVE StripMarkup(_)
StripMarkup(m) ==
    IF m # <<>> /\ IsSpace(Head(m)) THEN StripMarkup(Tail(m))
    ELSE IF m # <<>> /\ IsSpace(m[Len(m)]) THEN StripMarkup(SubSeq(m, 1, Len(m) - 1))
    ELSE m

\* len() of a markup string.
RECURSIVE SumLen(_)
SumLen(ss) == IF ss = <<>> THEN 0 ELSE Len(Head(ss)) + SumLen(Tail(ss))

RECURSIVE AttrsLen(_)
AttrsLen(attrs) ==
    IF attrs = {} THEN 0
    ELSE LET a == CHOOSE x \in attrs : TRUE
         IN 1 + Len(a.n) + 2 + SumLen(a.v) + 1 + AttrsLen(attrs \ {a})

TokLen(tok) ==
    CASE tok.k = "start" ->
           1 + Len(tok.name) + AttrsLen(tok.attrs)
             + (IF tok.name \in VoidTags THEN 2 ELSE 1)
      [] tok.k = "end" -> 3 + Len(tok.name)
      [] tok.k = "comment" -> 7 + Len(tok.s)
      [] tok.k = "decl" -> 4 + Len(tok.s)
      [] tok.k = "doctype" -> 11 + Len(tok.s)
      [] OTHER -> Len(tok.s)

RECURSIVE MarkupLen(_)
MarkupLen(m) == IF m = <<>> THEN 0 ELSE TokLen(Head(m)) + MarkupLen(Tail(m))

MinLength == 50

\* The tree after the five steps.
SanitizedTree(raw_html) ==
    StripAttrs(UnwrapDisallowed(RemoveComments(
        RemoveJunk(RemoveTags(Parse(raw_html), 1), 1)), 1))

\* A threshold that lets a result of exactly MinLength characters through.
sanitize_html_inclusive(raw_html) ==
    IF raw_html = <<>> THEN <<>>
    ELSE LET result == StripMarkup(Serialize(SanitizedTree(raw_html)))
         IN IF MarkupLen(result) >= MinLength THEN result ELSE <<>>

sanitize_html(raw_html) ==
    IF raw_html = <<>> THEN <<>>
    ELSE LET result == StripMarkup(Serialize(SanitizedTree(raw_html)))
         IN IF MarkupLen(result) > MinLength THEN result ELSE <<>>

(***************************************************************************)
(* get_display_html                                                        *)
(***************************************************************************)
\* A field of a record: present with a value, or absent (None).
Some(v) == [some |-> TRUE, v |-> v]
None    == [some |-> FALSE, v |-> <<>>]
\* post.get(field) or default
OrElse(opt, default) == IF opt.some /\ opt.v # <<>> THEN opt.v ELSE default

PRE_CLEAN_ERA == "nextjs_v2"

NoContent == <<"No", " ", "content", " ", "available.">>

\* str.split(sep) for sep a run of n newlines: the pieces between the
\* non-overlapping occurrences of the separator, found left to right.
RECURSIVE SplitFrom(_, _, _, _)
SplitFrom(t, i, n, cur) ==
    IF i > Len(t) THEN <<cur>>
    ELSE IF i + n - 1 <= Len(t) /\ \A j \in i..(i + n - 1) : t[j] = "\n"
      THEN <<cur>> \o SplitFrom(t, i + n, n, <<>>)
    ELSE SplitFrom(t, i + 1, n, Append(cur, t[i]))

\* A split that takes the single newline whatever the blank-line split gave.
SplitSingleNewline(t, n) == SplitFrom(t, 1, 1, <<>>)

Split(t, n) == SplitFrom(t, 1, n, <<>>)

html_escape(s) == EscapeAmpLtGt(s)

\* f'<p>{html_lib.escape(p.strip())}</p>'
Paragraph(p) ==
    <<StartTag("p", {})>>
      \o [i \in 1..Len(Strip(p)) |-> Text(html_escape(Strip(p)[i]))]
      \o <<EndTag("p")>>

RECURSIVE JoinParagraphs(_)
JoinParagraphs(ps) ==
    IF ps = <<>> THEN <<>>
    ELSE (IF Strip(Head(ps)) # <<>> THEN Paragraph(Head(ps)) ELSE <<>>)
           \o JoinParagraphs(Tail(ps))

\* A fallback that splits the stored text without cleaning it.
TextTierNoClean(p) ==
    LET body_text == OrElse(p.body_text, NoContent)
        double == Split(body_text, 2)
        paragraphs == IF Len(double) <= 1 THEN Split(body_text, 1) ELSE double
    IN JoinParagraphs(paragraphs)

\* The fallback of get_display_html: body_text to paragraphs.
TextTier(p) ==
    LET body_text == clean_body_text(OrElse(p.body_text, NoContent))
        double == Split(body_text, 2)
        paragraphs == IF Len(double) <= 1 THEN Split(body_text, 1) ELSE double
    IN JoinParagraphs(paragraphs)

\* A selector that trusts the stored markup of every era.
TrustedAnyEra(p) == OrElse(p.body_html, <<>>) # <<>>

\* era == "nextjs_v2" and body_html
Trusted(p) == p.era = PRE_CLEAN_ERA /\ OrElse(p.body_html, <<>>) # <<>>

\* Where control goes when sanitize_html raises: "except Exception: pass"
\* falls through to the fallback; without the handler the exception leaves
\* get_display_html.
Propagate == "raised"
OnException == "fallback"

(***************************************************************************)
(* Inputs.                                                                 *)
(***************************************************************************)
LongText == "Pedroia went 3-for-4 with a walk-off double in the tenth."
AdBanner == StartTag("div", {Attr("class", <<"ad-", "banner">>)})

Real  == <<"Real", " ", "article", " ", "content", " ", "here.">>
Great == <<"Great", " ", "game", " ", "today.">>
Leave == <<"Leave", " ", "a", " ", "Comment">>
Share == <<"Share", " ", "Tweet", " ", "React", " ", "(12)">>
Top5  == <<"Top", " ", "5", " ", "Comments">>
Byline == <<"By", " ", "carrabis", " ", "posted", " ", "November", " ",
            "24th,", " ", "2014">>
Nav   == <<"Home", " ", "The", " ", "Store", " ", "BarstoolTV", " ", "Cities",
           " ", "Barstool", " ", "Sports", " ", "All", " ", "Categories", " ">>
MediaKit == <<"Media", " ", "Kit">>

\* Phrases of the texts given to clean_body_text.
TextChunks == {Great, <<"\n">>, <<" ">>, Share, Leave, Top5, Byline, Nav,
               MediaKit}
Texts == {Flatten(cs) : cs \in SeqsUpTo(TextChunks, MaxChunks)}

\* Tokens of the markup given to sanitize_html.
MarkupAlphabet ==
    { Text(LongText), Text(" "), Text("&lt;script&gt;"),
      StartTag("p", {}), EndTag("p"),
      StartTag("font", {Attr("color", <<"red">>)}), EndTag("font"),
      AdBanner,
      StartTag("a", {Attr("href", <<"http://sox.co">>),
                     Attr("onclick", <<"track()">>)}),
      StartTag("script", {}), EndTag("script"),
      StartTag("br", {}), CommentTok("more"), BadDecl, DoctypeTok("html") }
Markups == SeqsUpTo(MarkupAlphabet, MaxMarkup)

\* Pieces of the body_html and phrases of the body_text of a post record.
PostPieces ==
    { <<StartTag("p", {}), Text(LongText), EndTag("p")>>,
      <<AdBanner, EndTag("div")>>,
      <<Text("Sox win.")>>,
      <<StartTag("script", {}), Text("alert(1)"), EndTag("script")>>,
      <<BadDecl>> }
PostChunks == {Real, <<"\n">>, <<" ">>, Leave, <<"<script>">>}
Eras == {PRE_CLEAN_ERA, "wordpress"}

Posts ==
    [ era : Eras \cup {""},
      body_html : {None} \cup
                  {Some(Flatten(ps)) : ps \in SeqsUpTo(PostPieces, MaxPostMarkup)},
      body_text : {None} \cup
                  {Some(Flatten(cs)) : cs \in SeqsUpTo(PostChunks, MaxPostChunks)} ]

(***************************************************************************)
(* State.                                                                  *)
(***************************************************************************)
VARIABLES
    post,      \* the record given to get_display_html
    pc,        \* position in the running function
    out,       \* the value returned
    tier,      \* the branch of get_display_html that returned
    caught,    \* sanitize_html raised and the handler caught it
    text,      \* argument / result of clean_body_text
    textArgs,  \* the arguments of the calls of clean_body_text, in order
    afterCut,  \* the local text after the cut loop of the last call
    raw,       \* argument / result of sanitize_html
    rawArgs,   \* the arguments of the calls of sanitize_html, in order
    calls,     \* number of calls made
    page,             \* st.session_state.page
    per_page,         \* the value of the "Posts per page" slider
    search_key,       \* the filters in the sidebar, as main joins them
    last_search_key,  \* st.session_state.last_search_key
    viewing_post,     \* st.session_state.viewing_post
    date_published,   \* the date_published column of a post
    shown,            \* what format_date returned for it
    counted           \* where get_stats counts it: "dated" or "undated"

vars == <<post, pc, out, tier, caught, text, textArgs, afterCut, raw, rawArgs,
          calls, page, per_page, search_key, last_search_key, viewing_post,
          date_published, shown, counted>>

postVars  == <<post, out, tier, caught>>
cleanVars == <<text, textArgs, afterCut>>
sanVars   == <<raw, rawArgs>>
uiVars    == <<page, per_page, search_key, last_search_key, viewing_post>>
dateVars  == <<date_published, shown, counted>>

NoPost == [era |-> "", body_html |-> None, body_text |-> None]

\* No post's date is under consideration.
DateStart == date_published = None /\ shown = None /\ counted = "pending"

\* st.session_state.viewing_post: None, or the id of the post shown.
NotViewing == [some |-> FALSE, id |-> 0]
Viewing(id) == [some |-> TRUE, id |-> id]

\* The sidebar as main draws it on the first run of a session.
PerPageOptions == {25, 50, 100}
DefaultPerPage == 50
SortOptions == {"Newest first", "Oldest first"}
DefaultKey == [filter |-> 1, sort |-> "Newest first"]

UiStart ==
    /\ page = 0
    /\ per_page = DefaultPerPage
    /\ search_key = DefaultKey
    /\ last_search_key = DefaultKey
    /\ viewing_post = NotViewing

(***************************************************************************)
(* get_display_html, one action per path through it.                       *)
(***************************************************************************)
Init ==
    /\ UiStart
    /\ DateStart
    /\ post \in Posts
    /\ pc = "call"
    /\ out = <<>>
    /\ tier = "none"
    /\ caught = FALSE
    /\ text = <<>> /\ textArgs = <<>> /\ afterCut = <<>>
    /\ raw = <<>> /\ rawArgs = <<>>
    /\ calls = 0

body_html == OrElse(post.body_html, <<>>)

\* if era == "nextjs_v2" and body_html: return body_html
ReturnTrusted ==
    /\ pc = "call"
    /\ Trusted(post)
    /\ out' = body_html
    /\ tier' = "trusted"
    /\ pc' = "return"
    /\ UNCHANGED <<post, caught, cleanVars, sanVars, calls, uiVars, dateVars>>

\* cleaned = sanitize_html(body_html); if cleaned: return cleaned
ReturnSanitized ==
    /\ pc = "call"
    /\ ~Trusted(post)
    /\ body_html # <<>>
    /\ sanitize_html(body_html) # <<>>
    /\ out' = sanitize_html(body_html)
    /\ tier' = "sanitized"
    /\ pc' = "return"
    /\ UNCHANGED <<post, caught, cleanVars, sanVars, calls, uiVars, dateVars>>

\* sanitize_html returned "": fall through
SanitizedEmpty ==
    /\ pc = "call"
    /\ ~Trusted(post)
    /\ body_html # <<>>
    /\ sanitize_html(body_html) = <<>>
    /\ pc' = "fallback"
    /\ UNCHANGED <<postVars, cleanVars, sanVars, calls, uiVars, dateVars>>

\* sanitize_html raised: except Exception: pass
SanitizeRaises ==
    /\ pc = "call"
    /\ ~Trusted(post)
    /\ body_html # <<>>
    /\ Rejectable(body_html)
    /\ pc' = OnException
    /\ caught' = (OnException = "fallback")
    /\ UNCHANGED <<post, out, tier, cleanVars, sanVars, calls, uiVars, dateVars>>

\* body_html is empty or absent
NoBodyHtml ==
    /\ pc = "call"
    /\ body_html = <<>>
    /\ pc' = "fallback"
    /\ UNCHANGED <<postVars, cleanVars, sanVars, calls, uiVars, dateVars>>

\* Fallback: body_text to paragraphs
ReturnText ==
    /\ pc = "fallback"
    /\ out' = TextTier(post)
    /\ tier' = "text"
    /\ pc' = "return"
    /\ UNCHANGED <<post, caught, cleanVars, sanVars, calls, uiVars, dateVars>>

Next ==
    \/ ReturnTrusted
    \/ ReturnSanitized
    \/ SanitizedEmpty
    \/ SanitizeRaises
    \/ NoBodyHtml
    \/ ReturnText

Spec == Init /\ [][Next]_vars

(***************************************************************************)
(* clean_body_text applied to a text, and again to its result.             *)
(***************************************************************************)
InitClean ==
    /\ UiStart
    /\ DateStart
    /\ text \in Texts
    /\ textArgs = <<>> /\ afterCut = <<>>
    /\ calls = 0
    /\ pc = "idle"
    /\ post = NoPost /\ out = <<>> /\ tier = "none" /\ caught = FALSE
    /\ raw = <<>> /\ rawArgs = <<>>

CleanBodyText ==
    /\ calls < MaxCalls
    /\ text' = clean_body_text(text)
    /\ textArgs' = Append(textArgs, text)
    /\ afterCut' = CutLoop(text, 1)
    /\ calls' = calls + 1
    /\ UNCHANGED <<pc, postVars, sanVars, uiVars, dateVars>>

NextClean == CleanBodyText

SpecClean == InitClean /\ [][NextClean]_vars

(***************************************************************************)
(* sanitize_html applied to a markup string, and again to its result.      *)
(***************************************************************************)
InitSanitize ==
    /\ UiStart
    /\ DateStart
    /\ raw \in Markups
    /\ rawArgs = <<>>
    /\ calls = 0
    /\ pc = "idle"
    /\ post = NoPost /\ out = <<>> /\ tier = "none" /\ caught = FALSE
    /\ text = <<>> /\ textArgs = <<>> /\ afterCut = <<>>

SanitizeHtml ==
    /\ pc = "idle"
    /\ calls < MaxCalls
    /\ raw' = sanitize_html(raw)
    /\ rawArgs' = Append(rawArgs, raw)
    /\ calls' = calls + 1
    /\ UNCHANGED <<pc, postVars, cleanVars, uiVars, dateVars>>

\* The parser rejects the markup: the call raises.
SanitizeRejected ==
    /\ pc = "idle"
    /\ calls < MaxCalls
    /\ Rejectable(raw)
    /\ pc' = "raised"
    /\ UNCHANGED <<calls, postVars, cleanVars, sanVars, uiVars, dateVars>>

NextSanitize == SanitizeHtml \/ SanitizeRejected

SpecSanitize == InitSanitize /\ [][NextSanitize]_vars

\* One call of sanitize_html on each markup.
SanitizeOnce == calls = 0 /\ SanitizeHtml

RejectedOnce == calls = 0 /\ SanitizeRejected

NextSanitizeOnce == SanitizeOnce \/ RejectedOnce

SpecSanitizeOnce == InitSanitize /\ [][NextSanitizeOnce]_vars

(***************************************************************************)
(* Properties.                                                             *)
(***************************************************************************)
Returned == pc = "return"

\* The elements of a markup string, as a reader of the string finds them.
Elements(m) == {Lex(m[i]) : i \in {j \in 1..Len(m) : Lex(m[j]).k = "start"}}

\* Every element is in the allow-list, with attributes of its own list only.
InVocabulary(m) ==
    \A e \in Elements(m) :
        /\ e.name \in ALLOWED_TAGS
        /\ \A a \in e.attrs : a.n \in ALLOWED_ATTRS(e.name)

Placeholder == Paragraph(NoContent)

\* C1: get_display_html never returns the empty string, whatever the era,
\* body_html and body_text of the record; with body_html and body_text both
\* absent it returns exactly "<p>No content available.</p>".
C1_NeverEmpty ==
    Returned =>
        /\ out # <<>>
        /\ (~post.body_html.some /\ ~post.body_text.some => out = Placeholder)

\* C2: clean_body_text is idempotent: applied to its own result it returns
\* that result.
C2_CleanIdempotent ==
    Len(textArgs) = 2 => text = textArgs[2]

\* C3: sanitize_html is idempotent: applied to its own result it returns
\* that result; a result longer than 50 characters is returned unchanged.
C3_SanitizeIdempotent ==
    Len(rawArgs) = 2 => raw = rawArgs[2]

\* C4: every element of the output of sanitize_html has an allow-listed
\* tag name and only attributes allow-listed for that tag, also when
\* disallowed elements were nested in disallowed elements.
C4_AllowListClosure ==
    Len(rawArgs) >= 1 => InVocabulary(raw)

\* A disallowed element directly inside a disallowed element, around content
\* that is kept.
C4_Witness ==
    /\ Len(rawArgs) = 1
    /\ Len(rawArgs[1]) >= 3
    /\ rawArgs[1][1].k = "start" /\ rawArgs[1][1].name \notin ALLOWED_TAGS
    /\ rawArgs[1][2].k = "start" /\ rawArgs[1][2].name \notin ALLOWED_TAGS
    /\ rawArgs[1][1].name \notin REMOVED_TAGS
    /\ rawArgs[1][2].name \notin REMOVED_TAGS
    /\ raw # <<>>

\* C5 (as stated): the output of get_display_html holds no element or
\* attribute outside the sanitizer's vocabulary, for a record of any era.
C5_OutputInVocabulary ==
    Returned => InVocabulary(out)

\* The text tier returns <p> elements without attributes around text in
\* which & < > are escaped.
EscapedParagraphs(m) ==
    \A i \in 1..Len(m) :
        \/ m[i] = StartTag("p", {})
        \/ m[i] = EndTag("p")
        \/ m[i].k = "text" /\ Lex(m[i]) = m[i] /\ EscapeAmpLtGt(m[i].s) = m[i].s

\* C5 (amended): for every record that is not a pre-clean-era record with a
\* non-empty body_html, the output holds no element or attribute outside
\* the sanitizer's vocabulary, and an output of the text tier is a
\* concatenation of <p> elements around escaped text.
C5_OutputInVocabularyUnlessTrusted ==
    (Returned /\ ~(post.era = PRE_CLEAN_ERA /\ body_html # <<>>)) =>
        /\ InVocabulary(out)
        /\ (tier = "text" => EscapedParagraphs(out))

\* A record of another era whose body_html has a script element and whose
\* body_text has markup characters, returned from either tier.
C5_Witness ==
    /\ Returned
    /\ post.era # PRE_CLEAN_ERA
    /\ ~InVocabulary(body_html)
    /\ post.body_text.some /\ \E i \in 1..Len(post.body_text.v) :
                                 post.body_text.v[i] = "<script>"
    /\ out # <<>>

\* C6: a pre-clean-era record with a non-empty body_html gets its body_html
\* back verbatim, by the first branch; for a record of any other era the
\* stored body_html is never returned by that branch, and markup that comes
\* from body_html has gone through sanitize_html.
C6_TrustedVerbatim ==
    Returned =>
        /\ (post.era = PRE_CLEAN_ERA /\ body_html # <<>>
              => out = body_html /\ tier = "trusted")
        /\ (post.era # PRE_CLEAN_ERA
              => /\ tier # "trusted"
                 /\ (tier = "sanitized" => out = sanitize_html(body_html))
                 /\ (out = body_html /\ body_html # <<>>
                       => sanitize_html(body_html) = body_html \/ tier = "text"))

\* A pre-clean-era record whose body_html the sanitizer would change.
C6_Witness ==
    /\ Returned
    /\ post.era = PRE_CLEAN_ERA
    /\ body_html # <<>>
    /\ sanitize_html(body_html) # body_html
    /\ post.body_text.some
    /\ out = body_html

\* The escaped-paragraph rendering of the cleaned body_text.
RenderedText(p) ==
    LET t == clean_body_text(OrElse(p.body_text, NoContent))
    IN JoinParagraphs(IF Len(Split(t, 2)) <= 1 THEN Split(t, 1) ELSE Split(t, 2))

\* C7: for a record that is not of the pre-clean era, a non-empty result of
\* sanitize_html is returned; when sanitize_html returns "" or body_html is
\* empty or absent, the output is the escaped-paragraph rendering of the
\* cleaned body_text; "<div class='ad-banner'></div>" with body_text
\* "Real article content here." gives "<p>Real article content here.</p>".
C7_SanitizedElseText ==
    (Returned /\ post.era # PRE_CLEAN_ERA) =>
        /\ (body_html # <<>> /\ sanitize_html(body_html) # <<>> /\ ~caught
              => out = sanitize_html(body_html))
        /\ (body_html = <<>> \/ sanitize_html(body_html) = <<>>
              => out = RenderedText(post))
        /\ (post.body_html = Some(<<AdBanner, EndTag("div")>>)
              /\ post.body_text = Some(Real)
              => out = <<StartTag("p", {}), Text("Real"), Text(" "),
                         Text("article"), Text(" "), Text("content"),
                         Text(" "), Text("here."), EndTag("p")>>)

\* The record of the example, returned from the text tier.
C7_Witness ==
    /\ Returned
    /\ post.era # PRE_CLEAN_ERA
    /\ post.body_html = Some(<<AdBanner, EndTag("div")>>)
    /\ post.body_text = Some(Real)
    /\ tier = "text"

\* A field holds textual content: a word of the text, or text of the markup
\* outside script elements.
HasWords(t) == \E i \in 1..Len(t) : t[i] \notin WS
HasMarkupText(m) ==
    \E i \in 1..Len(RemoveTags(Parse(m), 1)) :
        LET tok == RemoveTags(Parse(m), 1)[i]
        IN tok.k = "text" /\ tok.s \notin WS

\* C8: get_display_html returns the "No content available." paragraph only
\* when body_html and body_text are both absent: a record with textual
\* content in body_html or in body_text never gets the placeholder.
C8_PlaceholderOnlyWhenAbsent ==
    (Returned /\ (HasMarkupText(body_html)
                    \/ HasWords(OrElse(post.body_text, <<>>))))
        => out # Placeholder

\* The set of indices of the cut patterns that match a text.
Matching(t) == {i \in 1..Len(cut_patterns) : Search(cut_patterns[i], t) # 0}

\* C9: clean_body_text truncates at the first pattern, in list order, that
\* matches anywhere in the text: it cuts right before that pattern's
\* leftmost match and trims trailing whitespace, and applies no other cut
\* pattern, even one that matches earlier in the text; when no cut pattern
\* matches, the cut loop leaves the text as it is.
C9_FirstPatternInListOrder ==
    Len(textArgs) >= 1 =>
        LET t == textArgs[Len(textArgs)]
            M == Matching(t)
        IN IF M = {} THEN afterCut = t
           ELSE LET s == Search(cut_patterns[SetMin(M)], t)
                IN /\ afterCut = RStrip(SubSeq(t, 1, s - 1))
                   /\ \A i \in M : Search(cut_patterns[i], t) < s
                                     => Search(cut_patterns[i], afterCut) # 0

\* Two patterns match, the later-listed one earlier in the text, and its
\* match is still in the text after the cut loop.
C9_Witness ==
    /\ Len(textArgs) = 1
    /\ \E i, j \in Matching(textArgs[1]) :
          /\ i = SetMin(Matching(textArgs[1]))
          /\ j > i
          /\ 1 < Search(cut_patterns[j], textArgs[1])
          /\ Search(cut_patterns[j], textArgs[1]) < Search(cut_patterns[i], textArgs[1])
          /\ Search(cut_patterns[j], afterCut) # 0

\* C10: an exception of sanitize_html never leaves get_display_html: it is
\* caught, the sanitized result counts as empty, and the text tier's output
\* is returned.
C10_NoExceptionEscapes ==
    /\ pc # Propagate
    /\ (caught /\ Returned => tier = "text" /\ out = RenderedText(post))

\* sanitize_html raised on a record with body_text, and the text tier
\* returned its paragraphs.
C10_Witness ==
    /\ caught
    /\ Returned
    /\ tier = "text"
    /\ post.body_text.some
    /\ out # <<>> /\ out # Placeholder

(***************************************************************************)
(* The text tier on texts of several lines.                                *)
(***************************************************************************)
ParaChunks == {<<"Real">>, <<"\n">>, <<"\n", "\n">>, <<" ">>, <<"<script>">>}

InitText ==
    /\ UiStart
    /\ DateStart
    /\ post \in [ era : Eras,
                  body_html : {None, Some(<<BadDecl>>),
                               Some(<<StartTag("p", {}), Text(LongText),
                                      EndTag("p")>>)},
                  body_text : {None} \cup
                              {Some(Flatten(cs)) :
                                 cs \in SeqsUpTo(ParaChunks, MaxParaChunks)} ]
    /\ pc = "call"
    /\ out = <<>>
    /\ tier = "none"
    /\ caught = FALSE
    /\ text = <<>> /\ textArgs = <<>> /\ afterCut = <<>>
    /\ raw = <<>> /\ rawArgs = <<>>
    /\ calls = 0

SpecText == InitText /\ [][Next]_vars

\* The number of newlines that stand right before position i.
NewlinesBefore(t, i) ==
    SetMax({k \in 0..(i - 1) : \A j \in (i - k)..(i - 1) : t[j] = "\n"})

\* Where the separators of n newlines begin, none overlapping another.
SepStarts(t, n) ==
    {i \in 1..(Len(t) - n + 1) :
        /\ \A j \in i..(i + n - 1) : t[j] = "\n"
        /\ NewlinesBefore(t, i) % n = 0}

\* The segments between the separators, in order.
Segments(t, n) ==
    LET C == SepStarts(t, n)
        nth(k) == CHOOSE c \in C : Cardinality({d \in C : d < c}) = k - 1
    IN [k \in 1..(Cardinality(C) + 1) |->
          SubSeq(t, IF k = 1 THEN 1 ELSE nth(k - 1) + n,
                    IF k = Cardinality(C) + 1 THEN Len(t) ELSE nth(k) - 1)]

\* A segment without its leading and trailing whitespace, escaped, in <p>.
Trimmed(seg) ==
    LET W == {i \in 1..Len(seg) : seg[i] \notin WS}
    IN IF W = {} THEN <<>> ELSE SubSeq(seg, SetMin(W), SetMax(W))

ExpectedParagraph(seg) ==
    <<StartTag("p", {})>>
      \o [i \in 1..Len(Trimmed(seg)) |-> Text(EscapeAmpLtGt(Trimmed(seg)[i]))]
      \o <<EndTag("p")>>

\* The segments the text tier turns into paragraphs.
NonBlankSegments(p) ==
    LET t == clean_body_text(OrElse(p.body_text, NoContent))
        segs == IF Len(Segments(t, 2)) <= 1 THEN Segments(t, 1)
                ELSE Segments(t, 2)
    IN SelectSeq(segs, LAMBDA seg : Trimmed(seg) # <<>>)

CountP(m) == Cardinality({i \in 1..Len(m) : m[i] = StartTag("p", {})})

\* C11: the text tier splits the cleaned text on blank lines, and on single
\* newlines only when that gives at most one segment; whitespace-only
\* segments are dropped and every other segment becomes one <p> element
\* around its escaped, trimmed text, in order, with nothing in between, so
\* there are as many <p> elements as non-blank segments.
C11_ParagraphSplitting ==
    (Returned /\ tier = "text") =>
        /\ CountP(out) = Len(NonBlankSegments(post))
        /\ out = Flatten([k \in 1..Len(NonBlankSegments(post)) |->
                            ExpectedParagraph(NonBlankSegments(post)[k])])

\* A text with a blank line and, in one of its two paragraphs, a single
\* newline that stays inside the paragraph.
C11_Witness ==
    /\ Returned /\ tier = "text"
    /\ post.body_text.some
    /\ SepStarts(post.body_text.v, 2) # {}
    /\ CountP(out) = 2
    /\ \E i \in 1..Len(out) : out[i] = Text("\n")

\* A text without a blank line, split on its single newlines.
C11_WitnessSingle ==
    /\ Returned /\ tier = "text"
    /\ post.body_text.some
    /\ SepStarts(post.body_text.v, 2) = {}
    /\ CountP(out) = 2

(***************************************************************************)
(* The length threshold of sanitize_html.                                  *)
(***************************************************************************)
\* The argument of the last call and its serialized, trimmed result.
LastArg == rawArgs[Len(rawArgs)]

SerializedResult == StripMarkup(Serialize(SanitizedTree(LastArg)))

\* C12: sanitize_html returns the empty string exactly when its input is
\* empty or the serialized, trimmed result has at most 50 characters; a
\* result of 51 characters or more is returned unchanged; a non-empty
\* return value is never 50 characters or shorter.
C12_LengthThreshold ==
    Len(rawArgs) >= 1 =>
        LET result == SerializedResult
            length == MarkupLen(result)
        IN /\ (raw = <<>>) <=> (LastArg = <<>> \/ length <= 50)
           /\ length >= 51 => raw = result
           /\ raw # <<>> => MarkupLen(raw) >= 51

\* A result of exactly 50 characters, dropped.
C12_Witness ==
    /\ Len(rawArgs) = 1
    /\ MarkupLen(SerializedResult) = 50
    /\ raw = <<>>

\* A result of exactly 51 characters, returned.
C12_WitnessKept ==
    /\ Len(rawArgs) = 1
    /\ MarkupLen(SerializedResult) = 51
    /\ raw = SerializedResult

(***************************************************************************)
(* Unwrapping of disallowed elements.                                      *)
(***************************************************************************)
\* The tree the unwrapping step is given: parsed, with the removed tags,
\* the junk elements and the comments gone.
BeforeUnwrap == RemoveComments(RemoveJunk(RemoveTags(Parse(LastArg), 1), 1))

Disallowed(tok) == tok.k \in {"start", "end"} /\ tok.name \notin ALLOWED_TAGS

\* That tree without the disallowed elements' own tags and nothing else.
OnlyTagsDiscarded == SelectSeq(BeforeUnwrap, LAMBDA tok : ~Disallowed(tok))

ExpectedAfterUnwrap == StripMarkup(Serialize(StripAttrs(OnlyTagsDiscarded)))

\* C13: unwrapping discards only the disallowed elements' own tags: every
\* text and allowed element left by the earlier steps is in the output, in
\* document order and at its place, also for disallowed elements nested in
\* disallowed elements.
C13_UnwrapKeepsChildren ==
    (Len(rawArgs) >= 1 /\ LastArg # <<>>) =>
        LET expected == ExpectedAfterUnwrap
        IN raw = IF MarkupLen(expected) > MinLength THEN expected ELSE <<>>

\* A disallowed element nested in a disallowed element, whose text child is
\* followed by an allowed element; both are returned, in that order.
C13_Witness ==
    /\ Len(rawArgs) = 1
    /\ Len(BeforeUnwrap) >= 4
    /\ Disallowed(BeforeUnwrap[1]) /\ Disallowed(BeforeUnwrap[2])
    /\ BeforeUnwrap[1].k = "start" /\ BeforeUnwrap[2].k = "start"
    /\ BeforeUnwrap[3].k = "text"
    /\ BeforeUnwrap[4].k = "start" /\ ~Disallowed(BeforeUnwrap[4])
    /\ Len(raw) >= 2
    /\ raw[1] = BeforeUnwrap[3]
    /\ raw[2].k = "start" /\ raw[2].name = BeforeUnwrap[4].name

(***************************************************************************)
(* main: the list view, its pagination and the single-post view.           *)
(***************************************************************************)
\* The number of posts search_posts counts for each setting of the title,
\* body and confidence filters; the sort order does not change the count.
Totals == <<120, 260, 30, 0>>

SearchKeys == [filter : 1..Len(Totals), sort : SortOptions]

total(key) == Totals[key.filter]

\* total_pages = max(1, (total + per_page - 1) // per_page)
total_pages(key, n) == SetMax({1, (total(key) + n - 1) \div n})

\* The ids of the rows search_posts returns: LIMIT per_page OFFSET offset.
posts(key, n, p) ==
    LET offset == p * n
    IN {id \in 1..total(key) : id > offset /\ id <= offset + n}

PipelineIdle ==
    /\ post = NoPost /\ pc = "idle" /\ out = <<>> /\ tier = "none"
    /\ caught = FALSE
    /\ text = <<>> /\ textArgs = <<>> /\ afterCut = <<>>
    /\ raw = <<>> /\ rawArgs = <<>>
    /\ calls = 0

InitUI == UiStart /\ PipelineIdle /\ DateStart

\* A run of main that reaches the list view with the session page p: the
\* page is reset when the filters differ from those of the last list run.
ListRun(key, p) ==
    IF last_search_key # key
    THEN page' = 0 /\ last_search_key' = key
    ELSE page' = p /\ last_search_key' = last_search_key

\* A run of main with the filters key; the single-post view returns before
\* the reset.
Rerun(key) ==
    IF viewing_post # NotViewing
    THEN UNCHANGED <<page, last_search_key>>
    ELSE ListRun(key, page)

ChangeFilter ==
    \E key \in SearchKeys :
        /\ key # search_key
        /\ search_key' = key
        /\ Rerun(key)
        /\ UNCHANGED <<per_page, viewing_post>>

ChangePerPage ==
    \E n \in PerPageOptions :
        /\ n # per_page
        /\ per_page' = n
        /\ Rerun(search_key)
        /\ UNCHANGED <<search_key, viewing_post>>

ClickNext ==
    /\ viewing_post = NotViewing
    /\ posts(search_key, per_page, page) # {}
    /\ page < total_pages(search_key, per_page) - 1
    /\ ListRun(search_key, page + 1)
    /\ UNCHANGED <<per_page, search_key, viewing_post>>

ClickPrevious ==
    /\ viewing_post = NotViewing
    /\ posts(search_key, per_page, page) # {}
    /\ page > 0
    /\ ListRun(search_key, page - 1)
    /\ UNCHANGED <<per_page, search_key, viewing_post>>

\* The Read button of the first or the last card of the page.
ClickRead ==
    /\ viewing_post = NotViewing
    /\ posts(search_key, per_page, page) # {}
    /\ \E id \in {SetMin(posts(search_key, per_page, page)),
                  SetMax(posts(search_key, per_page, page))} :
          viewing_post' = Viewing(id)
    /\ UNCHANGED <<page, per_page, search_key, last_search_key>>

ClickBack ==
    /\ viewing_post # NotViewing
    /\ viewing_post' = NotViewing
    /\ ListRun(search_key, page)
    /\ UNCHANGED <<per_page, search_key>>

NextUI ==
    \/ (ChangeFilter /\ UNCHANGED <<pc, postVars, cleanVars, sanVars, calls,
                                    dateVars>>)
    \/ (ChangePerPage /\ UNCHANGED <<pc, postVars, cleanVars, sanVars, calls,
                                     dateVars>>)
    \/ (ClickNext /\ UNCHANGED <<pc, postVars, cleanVars, sanVars, calls,
                                 dateVars>>)
    \/ (ClickPrevious /\ UNCHANGED <<pc, postVars, cleanVars, sanVars, calls,
                                     dateVars>>)
    \/ (ClickRead /\ UNCHANGED <<pc, postVars, cleanVars, sanVars, calls,
                                 dateVars>>)
    \/ (ClickBack /\ UNCHANGED <<pc, postVars, cleanVars, sanVars, calls,
                                 dateVars>>)

SpecUI == InitUI /\ [][NextUI]_vars

\* C14: whatever the user did, the list view's page index is at least 0 and
\* at most total_pages - 1, for the total_pages of the current result count
\* and posts-per-page.
C14_PageWithinRange ==
    viewing_post = NotViewing =>
        /\ 0 <= page
        /\ page <= total_pages(search_key, per_page) - 1

(***************************************************************************)
(* format_date and the dated count of get_stats.  A date string is the     *)
(* sequence of its characters; Python and SQLite both compare strings      *)
(* character by character, by code point.                                  *)
(***************************************************************************)
Digit == <<"0", "1", "2", "3", "4", "5", "6", "7", "8", "9">>

Ord(c) == IF c = "-" THEN 45
          ELSE 47 + (CHOOSE n \in 1..10 : Digit[n] = c)

\* a < b for strings: the first differing character decides, and a proper
\* prefix is less than the longer string.
RECURSIVE StrLess(_, _)
StrLess(a, b) ==
    IF b = <<>> THEN FALSE
    ELSE IF a = <<>> THEN TRUE
    ELSE IF Ord(Head(a)) # Ord(Head(b)) THEN Ord(Head(a)) < Ord(Head(b))
    ELSE StrLess(Tail(a), Tail(b))

StrLeq(a, b) == a = b \/ StrLess(a, b)

TwoDigits(n) == <<Digit[(n \div 10) + 1], Digit[(n % 10) + 1]>>

Year4(y) == TwoDigits(y \div 100) \o TwoDigits(y % 100)

\* 'YYYY-MM-DD'
IsoDate(y, m, d) == Year4(y) \o <<"-">> \o TwoDigits(m) \o <<"-">> \o TwoDigits(d)

NoDate == <<"N", "o", " ", "d", "a", "t", "e">>

\* if not date_str or date_str < "2010" or date_str > "2025": "No date"
format_date(date_str) ==
    IF \/ ~date_str.some
       \/ date_str.v = <<>>
       \/ StrLess(date_str.v, Year4(2010))
       \/ StrLess(Year4(2025), date_str.v)
    THEN NoDate
    ELSE date_str.v

\* date_published IS NOT NULL AND date_published >= '2010-01-01'
\* AND date_published <= '2025-12-31'
is_dated(date_str) ==
    /\ date_str.some
    /\ StrLeq(IsoDate(2010, 1, 1), date_str.v)
    /\ StrLeq(date_str.v, IsoDate(2025, 12, 31))

DateInputs ==
    {None, Some(<<>>)} \cup
    {Some(IsoDate(y, m, d)) : y \in {2009, 2010, 2017, 2024, 2025, 2026},
                              m \in {1, 7, 12}, d \in {1, 15, 31}}

InitDate ==
    /\ UiStart /\ PipelineIdle
    /\ date_published \in DateInputs
    /\ shown = None
    /\ counted = "pending"

\* render_post_card / render_full_post: date = format_date(...)
FormatDate ==
    /\ ~shown.some
    /\ shown' = Some(format_date(date_published))
    /\ UNCHANGED <<date_published, counted>>

\* get_stats: the post falls in the dated count or in the undated one.
CountDated ==
    /\ counted = "pending"
    /\ counted' = IF is_dated(date_published) THEN "dated" ELSE "undated"
    /\ UNCHANGED <<date_published, shown>>

NextDate ==
    \/ (FormatDate /\ UNCHANGED <<pc, postVars, cleanVars, sanVars, calls,
                                  uiVars>>)
    \/ (CountDated /\ UNCHANGED <<pc, postVars, cleanVars, sanVars, calls,
                                  uiVars>>)

SpecDate == InitDate /\ [][NextDate]_vars

\* C15: format_date shows the stored date for exactly the dates get_stats
\* counts as dated (non-null, from '2010-01-01' through '2025-12-31'), and
\* "No date" for an absent date and for a date outside that window.
C15_ShownIffDated ==
    (shown.some /\ counted # "pending") =>
        shown.v = IF counted = "dated" THEN date_published.v ELSE NoDate

====
